---- MODULE Spec2Model ----
(***************************************************************************)
(* Model of lib/segment/src/spaces/simple.rs: the three metrics            *)
(* (EuclidMetric, DotProductMetric, CosineMetric), their run-time dispatch *)
(* on the detected CPU features, the scalar kernels and the SSE / AVX2 /   *)
(* AVX-512F / NEON kernels with their chunk loop, horizontal reduction and *)
(* scalar tail loop.                                                       *)
(*                                                                         *)
(* Numbers.  Vector elements are integer-valued f32 values of small        *)
(* magnitude, so every product, difference and sum the kernels form is     *)
(* exact in f32 (and in the f64 accumulators of the NEON kernels) and is   *)
(* held as an integer.  The results of sqrt and of division are not        *)
(* integers: an F32 value is a record [cls, val], cls one of "fin", "nan", *)
(* "inf"; a finite value is val / SqrtScale (fixed point, rounded toward   *)
(* zero), an infinity carries its sign in val.                             *)
(***************************************************************************)
EXTENDS Integers, Sequences, FiniteSets, TLC

\* ------------------------------------------------------------------ bounds
\* Longest vector: two 16-lane chunks plus a tail.
MaxLen == 33
\* Elements range over -ElemSpan .. ElemSpan.
ElemSpan == 2
\* Input vectors are ramps k |-> ((k * p + q) mod (2*ElemSpan+1)) - ElemSpan.
PatMul == 2
PatAdd == 2
\* Scalars a of the bilinearity law range over -ScalarSpan .. ScalarSpan.
ScalarSpan == 2
\* Fixed-point denominator of non-integer F32 values.
SqrtScale == 4
\* Concurrent callers, and the vector length they use.
NumCallers == 2
ConcLen == 5

\* ------------------------------------------------------------- F32 values
Fin(k) == [cls |-> "fin", val |-> k]
NaN == [cls |-> "nan", val |-> 0]
Inf(s) == [cls |-> "inf", val |-> s]

\* An integer-valued f32.
FromInt(k) == Fin(k * SqrtScale)

IsFinite(x) == x.cls = "fin"

Sign(k) == IF k < 0 THEN -1 ELSE IF k > 0 THEN 1 ELSE 0
Abs(k) == IF k < 0 THEN -k ELSE k

RECURSIVE SqrtSearch(_, _, _)
\* lo*lo <= n < hi*hi
SqrtSearch(n, lo, hi) ==
    IF hi - lo <= 1 THEN lo
    ELSE LET mid == (lo + hi) \div 2
         IN  IF mid * mid <= n THEN SqrtSearch(n, mid, hi)
                               ELSE SqrtSearch(n, lo, mid)

ISqrt(n) == SqrtSearch(n, 0, n + 1)

\* f32::sqrt: NaN for NaN and negatives, +inf for +inf, else the root.
FSqrt(x) ==
    CASE x.cls = "nan" -> NaN
      [] x.cls = "inf" -> IF x.val > 0 THEN x ELSE NaN
      [] OTHER -> IF x.val < 0 THEN NaN ELSE Fin(ISqrt(x.val * SqrtScale))

\* Unary minus.
FNeg(x) == IF x.cls = "nan" THEN x ELSE [x EXCEPT !.val = -x.val]

\* Variant of FDiv that guards a zero divisor and returns 0 (C9 must
\* tell it from the code).
FDivGuarded(x, y) ==
    IF x.cls = "fin" /\ y.cls = "fin" /\ y.val # 0
    THEN Fin(Sign(x.val) * Sign(y.val) * ((Abs(x.val) * SqrtScale) \div Abs(y.val)))
    ELSE Fin(0)

\* x / y with IEEE-754 results for a zero or non-finite operand.
FDiv(x, y) ==
    CASE x.cls = "nan" \/ y.cls = "nan" -> NaN
      [] x.cls = "inf" /\ y.cls = "inf" -> NaN
      [] x.cls = "inf" -> Inf(x.val * (IF y.val < 0 THEN -1 ELSE 1))
      [] y.cls = "inf" -> Fin(0)
      [] y.val = 0 -> IF x.val = 0 THEN NaN ELSE Inf(Sign(x.val))
      [] OTHER -> Fin(Sign(x.val) * Sign(y.val)
                      * ((Abs(x.val) * SqrtScale) \div Abs(y.val)))

\* x <= y on F32 values (false when either is NaN).
FLe(x, y) ==
    CASE x.cls = "nan" \/ y.cls = "nan" -> FALSE
      [] x.cls = "inf" -> x.val < 0 \/ (y.cls = "inf" /\ y.val > 0)
      [] y.cls = "inf" -> y.val > 0
      [] OTHER -> x.val <= y.val

\* ------------------------------------------------------- values returned
\* ScoreType, Option<Vec<VectorElementType>>, and the outcome of a kernel
\* whose body does not compile.
Score(x) == [tag |-> "score", score |-> x, vec |-> <<>>]
VecOut(s) == [tag |-> "vec", score |-> Fin(0), vec |-> s]
SomeVec(s) == [tag |-> "some", score |-> Fin(0), vec |-> s]
None == [tag |-> "none", score |-> Fin(0), vec |-> <<>>]
NoBuild == [tag |-> "nobuild", score |-> Fin(0), vec |-> <<>>]
Pending == [tag |-> "pending", score |-> Fin(0), vec |-> <<>>]

\* ----------------------------------------------------------- vector access
\* Kernel families and their lane width (f32 lanes per register).
X86Families == {"sse", "avx2", "avx512f"}
SimdFamilies == X86Families \cup {"neon"}
Families == SimdFamilies \cup {"scalar"}
Ops == {"euclid", "dot", "cosine"}

Lanes(f) ==
    CASE f = "sse" -> 4
      [] f = "avx2" -> 8
      [] f = "avx512f" -> 16
      [] f = "neon" -> 4
      [] OTHER -> 1

\* Variant of ChunkLimit that does not round down to a multiple of W, so
\* the last chunk runs past the end of the slice (C10 must tell it from
\* the code).
ChunkLimitWhole(n, W) == n

\* let m = n - (n % W): the length of the prefix the chunk loop covers.
ChunkLimit(n, W) == n - (n % W)

\* _mm_loadu_ps(&v[i]) and its wider forms, vld1q_f32(&v[i]): W lanes read
\* from element i on.  A lane past the end of the slice is an
\* out-of-bounds read and yields an arbitrary value g.
LoadU(v, i, W, g) ==
    [l \in 1..W |-> IF i + l <= Len(v) THEN v[i + l] ELSE g]

Zeros(W) == [l \in 1..W |-> 0]

RECURSIVE SeqSum(_)
SeqSum(s) == IF s = <<>> THEN 0 ELSE s[1] + SeqSum(Tail(s))

\* ------------------------------------------------------------- intrinsics
mm_add_ps(a, b) == [l \in 1..Len(a) |-> a[l] + b[l]]
\* (b2, b3, a2, a3)
mm_movehl_ps(a, b) == <<b[3], b[4], a[3], a[4]>>
\* imm8 = 0x55: lane 1 of a twice, lane 1 of b twice
mm_shuffle_ps_0x55(a, b) == <<a[2], a[2], b[2], b[2]>>
\* lowest lane added, upper lanes of a kept
mm_add_ss(a, b) == <<a[1] + b[1], a[2], a[3], a[4]>>
mm_cvtss_f32(a) == a[1]
mm256_extractf128_ps_1(x) == SubSeq(x, 5, 8)
mm256_castps256_ps128(x) == SubSeq(x, 1, 4)
\* mask u16::MAX: all sixteen lanes summed
mm512_mask_reduce_add_ps(x) == SeqSum(x)
vaddvq_f32(x) == SeqSum(x)

hsum128_ps_sse(x) ==
    LET x64 == mm_add_ps(x, mm_movehl_ps(x, x))
        x32 == mm_add_ss(x64, mm_shuffle_ps_0x55(x64, x64))
    IN  mm_cvtss_f32(x32)

hsum256_ps_avx2(x) ==
    LET x128 == mm_add_ps(mm256_extractf128_ps_1(x), mm256_castps256_ps128(x))
        x64 == mm_add_ps(x128, mm_movehl_ps(x128, x128))
        x32 == mm_add_ss(x64, mm_shuffle_ps_0x55(x64, x64))
    IN  mm_cvtss_f32(x32)

\* The reduction each x86 family applies to its accumulator register.
HSum(f, acc) ==
    CASE f = "sse" -> hsum128_ps_sse(acc)
      [] f = "avx2" -> hsum256_ps_avx2(acc)
      [] f = "avx512f" -> mm512_mask_reduce_add_ps(acc)
      [] OTHER -> SeqSum(acc)

\* ----------------------------------------------------------- kernel bodies
\* The closure of the scalar kernels: (a - b).powi(2), a * b, x * x.
ScalarTerm(op, x, y) ==
    CASE op = "euclid" -> (x - y) * (x - y)
      [] op = "dot" -> x * y
      [] OTHER -> x * x

\* One lane of a chunk: sub then mul/fmadd, mul/fmadd, mul/fmadd of the
\* register with itself (y is the same load as x for cosine).
LaneTerm(op, x, y) ==
    CASE op = "euclid" -> (x - y) * (x - y)
      [] op = "dot" -> x * y
      [] OTHER -> x * y

\* Variant of TailTerm whose dot tail adds the elements instead of
\* multiplying them (C8 must tell it from the code).
TailTermSum(op, x, y) ==
    CASE op = "euclid" -> (x - y) * (x - y)
      [] op = "dot" -> x + y
      [] OTHER -> x * x

\* One element of the tail loop: (v1[i] - v2[i]).powi(2), v1[i] * v2[i],
\* v.powi(2).
TailTerm(op, x, y) ==
    CASE op = "euclid" -> (x - y) * (x - y)
      [] op = "dot" -> x * y
      [] OTHER -> x * x

\* The second operand of a kernel: cosine_preprocess* loads `vector` twice.
Second(op, v1, v2) == IF op = "cosine" THEN v1 ELSE v2

\* Registers of a running kernel: the lane accumulator (sum128 / sum256 /
\* sum512; unused by NEON) and the scalar res / length.
KernelStart(f) == [acc |-> IF f \in X86Families THEN Zeros(Lanes(f)) ELSE <<>>,
                   res |-> 0]

\* Body of `for i in (0..m).step_by(W)`.
ChunkBody(f, op, a, b, i, st, g) ==
    LET W == Lanes(f)
        x == LoadU(a, i, W, g)
        y == LoadU(b, i, W, g)
        t == [l \in 1..W |-> LaneTerm(op, x[l], y[l])]
    IN  IF f = "neon"
        THEN [st EXCEPT !.res = @ + vaddvq_f32(t)]
        ELSE [st EXCEPT !.acc = mm_add_ps(t, @)]

\* After the chunk loop: let mut res = hsum(sum); NEON keeps its res.
Reduce(f, st) ==
    IF f \in X86Families THEN [st EXCEPT !.res = HSum(f, st.acc)] ELSE st

\* First index of the tail loop `for i in m..n`.
TailStart(n, W) == ChunkLimit(n, W)

\* Body of `for i in m..n`.
TailBody(op, a, b, i, st) ==
    [st EXCEPT !.res = @ + TailTerm(op, a[i + 1], b[i + 1])]

\* Variant of Normalized that maps only the chunked prefix of the vector
\* (C4 must tell it from the code).
NormalizedPrefix(vector, length) ==
    [k \in 1..ChunkLimit(Len(vector), 4) |-> FDiv(FromInt(vector[k]), length)]

\* vector.iter().map(|x| x / length).collect()
Normalized(vector, length) ==
    [k \in 1..Len(vector) |-> FDiv(FromInt(vector[k]), length)]

\* Variant of Final that returns the Euclidean distance without negating
\* it (C6 must tell it from the code).
FinalNotNegated(op, a, res) ==
    CASE op = "euclid" -> Score(FSqrt(FromInt(res)))
      [] op = "dot" -> Score(FromInt(res))
      [] OTHER -> VecOut(Normalized(a, FSqrt(FromInt(res))))

\* The last expression of a kernel: -res.sqrt(), res, or the normalized
\* copy of the vector.
Final(op, a, res) ==
    CASE op = "euclid" -> Score(FNeg(FSqrt(FromInt(res))))
      [] op = "dot" -> Score(FromInt(res))
      [] OTHER -> VecOut(Normalized(a, FSqrt(FromInt(res))))

RECURSIVE ChunkLoop(_, _, _, _, _, _, _)
ChunkLoop(f, op, a, b, i, m, st) ==
    IF i < m
    THEN ChunkLoop(f, op, a, b, i + Lanes(f), m, ChunkBody(f, op, a, b, i, st, 0))
    ELSE st

RECURSIVE TailLoop(_, _, _, _, _, _)
TailLoop(op, a, b, i, n, st) ==
    IF i < n THEN TailLoop(op, a, b, i + 1, n, TailBody(op, a, b, i, st)) ELSE st

\* A whole accelerated kernel: chunk loop, reduction, tail loop, last step.
SimdKernel(f, op, v1, v2) ==
    LET b == Second(op, v1, v2)
        n == Len(v1)
        s1 == ChunkLoop(f, op, v1, b, 0, ChunkLimit(n, Lanes(f)), KernelStart(f))
        s2 == TailLoop(op, v1, b, TailStart(n, Lanes(f)), n, Reduce(f, s1))
    IN  Final(op, v1, s2.res)

RECURSIVE ScalarSumFrom(_, _, _, _)
ScalarSumFrom(op, a, b, k) ==
    IF k > Len(a) THEN 0
    ELSE ScalarTerm(op, a[k], b[k]) + ScalarSumFrom(op, a, b, k + 1)

\* The .sum() of the scalar kernels' iterator chains.
ScalarSum(op, v1, v2) == ScalarSumFrom(op, v1, Second(op, v1, v2), 1)

\* ------------------------------------------------------ the twelve kernels
euclid_similarity(v1, v2) == Final("euclid", v1, ScalarSum("euclid", v1, v2))
cosine_preprocess(vector) == Final("cosine", vector, ScalarSum("cosine", vector, vector))
dot_similarity(v1, v2) == Final("dot", v1, ScalarSum("dot", v1, v2))

\* `let n2 = v1.len();` binds n2, and the next line and the tail loop read
\* n, which nothing binds: with target_feature = "avx512f" the function
\* has no compiled body.
euclid_similarity_avx512f_compiles == FALSE

euclid_similarity_avx512f(v1, v2) ==
    IF euclid_similarity_avx512f_compiles
    THEN SimdKernel("avx512f", "euclid", v1, v2)
    ELSE NoBuild
cosine_preprocess_avx512f(vector) == SimdKernel("avx512f", "cosine", vector, vector)
dot_similarity_avx512f(v1, v2) == SimdKernel("avx512f", "dot", v1, v2)

euclid_similarity_avx2(v1, v2) == SimdKernel("avx2", "euclid", v1, v2)
cosine_preprocess_avx2(vector) == SimdKernel("avx2", "cosine", vector, vector)
dot_similarity_avx2(v1, v2) == SimdKernel("avx2", "dot", v1, v2)

euclid_similarity_sse(v1, v2) == SimdKernel("sse", "euclid", v1, v2)
cosine_preprocess_sse(vector) == SimdKernel("sse", "cosine", vector, vector)
dot_similarity_sse(v1, v2) == SimdKernel("sse", "dot", v1, v2)

euclid_similarity_neon(v1, v2) == SimdKernel("neon", "euclid", v1, v2)
cosine_preprocess_neon(vector) == SimdKernel("neon", "cosine", vector, vector)
dot_similarity_neon(v1, v2) == SimdKernel("neon", "dot", v1, v2)

\* Whether kernel (f, op) has a compiled body.
Compiles(f, op) ==
    (f = "avx512f" /\ op = "euclid") => euclid_similarity_avx512f_compiles

\* Kernel (f, op) applied to (v1, v2), run to completion.
RunKernel(f, op, v1, v2) ==
    CASE f = "scalar" /\ op = "euclid" -> euclid_similarity(v1, v2)
      [] f = "scalar" /\ op = "dot" -> dot_similarity(v1, v2)
      [] f = "scalar" /\ op = "cosine" -> cosine_preprocess(v1)
      [] f = "sse" /\ op = "euclid" -> euclid_similarity_sse(v1, v2)
      [] f = "sse" /\ op = "dot" -> dot_similarity_sse(v1, v2)
      [] f = "sse" /\ op = "cosine" -> cosine_preprocess_sse(v1)
      [] f = "avx2" /\ op = "euclid" -> euclid_similarity_avx2(v1, v2)
      [] f = "avx2" /\ op = "dot" -> dot_similarity_avx2(v1, v2)
      [] f = "avx2" /\ op = "cosine" -> cosine_preprocess_avx2(v1)
      [] f = "avx512f" /\ op = "euclid" -> euclid_similarity_avx512f(v1, v2)
      [] f = "avx512f" /\ op = "dot" -> dot_similarity_avx512f(v1, v2)
      [] f = "avx512f" /\ op = "cosine" -> cosine_preprocess_avx512f(v1)
      [] f = "neon" /\ op = "euclid" -> euclid_similarity_neon(v1, v2)
      [] f = "neon" /\ op = "dot" -> dot_similarity_neon(v1, v2)
      [] OTHER -> cosine_preprocess_neon(v1)

\* --------------------------------------------------------------- dispatch
\* The kernel a metric method runs, from the detected CPU features cp:
\* is_x86_feature_detected!("avx2"), then ("sse"), then the scalar kernel.
\* The blocks exist only under cfg(target_arch = "x86" / "x86_64"); on
\* other targets cp holds no x86 feature.
EuclidMetric_similarity(cp) ==
    [fam |-> IF "avx2" \in cp THEN "avx2"
             ELSE IF "sse" \in cp THEN "sse" ELSE "scalar",
     op |-> "euclid"]

DotProductMetric_similarity(cp) ==
    [fam |-> IF "avx2" \in cp THEN "avx2"
             ELSE IF "sse" \in cp THEN "sse" ELSE "scalar",
     op |-> "dot"]

\* Variant of CosineMetric_similarity without the avx2 branch (C3 must
\* tell it from the code).
CosineMetric_similarity_NoAvx2(cp) ==
    [fam |-> IF "sse" \in cp THEN "sse" ELSE "scalar", op |-> "dot"]

CosineMetric_similarity(cp) ==
    [fam |-> IF "avx2" \in cp THEN "avx2"
             ELSE IF "sse" \in cp THEN "sse" ELSE "scalar",
     op |-> "dot"]

CosineMetric_preprocess(cp) ==
    [fam |-> IF "avx2" \in cp THEN "avx2"
             ELSE IF "sse" \in cp THEN "sse" ELSE "scalar",
     op |-> "cosine"]

\* preprocess of the Euclid and Dot metrics.
EuclidMetric_preprocess(vector) == None
DotProductMetric_preprocess(vector) == None

\* Some(..) around the kernel's Vec in CosineMetric::preprocess.
Wrap(api, r) == IF api = "preprocess" THEN SomeVec(r.vec) ELSE r

Metrics == {"Euclid", "Dot", "Cosine"}

\* The kernel Metric::similarity of `metric` selects.
SimilarityKernel(metric, cp) ==
    CASE metric = "Euclid" -> EuclidMetric_similarity(cp)
      [] metric = "Dot" -> DotProductMetric_similarity(cp)
      [] OTHER -> CosineMetric_similarity(cp)

\* ------------------------------------------------------------------ state
\* caps: the CPU capability set of the process (features compiled in and
\*       detected on the running CPU).
\* call: per caller, the call it has in progress: its arguments, the
\*       kernel selected, the kernel's loop index and registers, the
\*       chunk start indices loaded and the tail indices visited so far,
\*       and the value returned.
VARIABLES caps, call
vars == <<caps, call>>

Callers == 1..NumCallers

\* A CPU that detects avx2 detects sse, one that detects avx512f detects
\* avx2; NEON belongs to the other architecture.
CapabilitySets ==
    {{}, {"sse"}, {"sse", "avx2"}, {"sse", "avx2", "avx512f"}, {"neon"}}

Ramp(n, p, q) ==
    [k \in 1..n |-> ((k * p + q) % (2 * ElemSpan + 1)) - ElemSpan]
ZeroVec(n) == [k \in 1..n |-> 0]
Vecs(n) == {Ramp(n, p, q) : p \in 1..PatMul, q \in 0..PatAdd} \cup {ZeroVec(n)}

\* Argument pairs of equal length (the precondition of similarity).
MainInputs == UNION {Vecs(n) \X Vecs(n) : n \in 0..MaxLen}
ConcInputs == {<<Ramp(ConcLen, 1, 0), Ramp(ConcLen, 1, 1)>>,
               <<ZeroVec(ConcLen), Ramp(ConcLen, 1, 1)>>}

IdleCall ==
    [pc |-> "idle", api |-> "none", metric |-> "none", fam |-> "none",
     op |-> "none", v1 |-> <<>>, v2 |-> <<>>, i |-> 0,
     st |-> KernelStart("none"), starts |-> <<>>, tails |-> <<>>,
     out |-> Pending]

Init ==
    /\ caps \in CapabilitySets
    /\ call = [c \in Callers |-> IdleCall]

\* A caller issues a call when it has none in progress.
Free(c) == call[c].pc = "idle"

\* Entry into kernel k = (fam, op) with arguments a, b.
Enter(api, metric, k, a, b) ==
    [pc |-> IF ~Compiles(k.fam, k.op) THEN "nobuild"
            ELSE IF k.fam = "scalar" THEN "scalar" ELSE "chunk",
     api |-> api, metric |-> metric, fam |-> k.fam, op |-> k.op,
     v1 |-> a, v2 |-> b, i |-> 0, st |-> KernelStart(k.fam),
     starts |-> <<>>, tails |-> <<>>,
     out |-> IF Compiles(k.fam, k.op) THEN Pending ELSE NoBuild]

\* A preprocess that returns without running a kernel.
Returned(metric, a, r) ==
    [IdleCall EXCEPT !.pc = "done", !.api = "preprocess", !.metric = metric,
                     !.v1 = a, !.out = r]

\* ---------------------------------------------------------------- actions
EuclidSimilarity(c, In) ==
    /\ Free(c)
    /\ \E ab \in In :
         call' = [call EXCEPT ![c] =
                    Enter("similarity", "Euclid", EuclidMetric_similarity(caps),
                          ab[1], ab[2])]
    /\ UNCHANGED caps

DotSimilarity(c, In) ==
    /\ Free(c)
    /\ \E ab \in In :
         call' = [call EXCEPT ![c] =
                    Enter("similarity", "Dot", DotProductMetric_similarity(caps),
                          ab[1], ab[2])]
    /\ UNCHANGED caps

CosineSimilarity(c, In) ==
    /\ Free(c)
    /\ \E ab \in In :
         call' = [call EXCEPT ![c] =
                    Enter("similarity", "Cosine", CosineMetric_similarity(caps),
                          ab[1], ab[2])]
    /\ UNCHANGED caps

EuclidPreprocess(c, In) ==
    /\ Free(c)
    /\ \E ab \in In :
         call' = [call EXCEPT ![c] =
                    Returned("Euclid", ab[1], EuclidMetric_preprocess(ab[1]))]
    /\ UNCHANGED caps

DotPreprocess(c, In) ==
    /\ Free(c)
    /\ \E ab \in In :
         call' = [call EXCEPT ![c] =
                    Returned("Dot", ab[1], DotProductMetric_preprocess(ab[1]))]
    /\ UNCHANGED caps

CosinePreprocess(c, In) ==
    /\ Free(c)
    /\ \E ab \in In :
         call' = [call EXCEPT ![c] =
                    Enter("preprocess", "Cosine", CosineMetric_preprocess(caps),
                          ab[1], <<>>)]
    /\ UNCHANGED caps

\* tests::test_simd and tests::test_neon: a kernel of a detected family,
\* or a scalar kernel, called directly.  Kernels are modelled function by
\* function: a capability set with avx512f stands for a build with
\* target_feature = "avx512f", in which euclid_similarity_avx512f is the
\* one function without a compiled body; calling it ends in "nobuild".
TestKernel(c, In) ==
    /\ Free(c)
    /\ \E f \in caps \cup {"scalar"}, op \in Ops, ab \in In :
         call' = [call EXCEPT ![c] =
                    Enter("kernel", "none", [fam |-> f, op |-> op], ab[1],
                          IF op = "cosine" THEN <<>> ELSE ab[2])]
    /\ UNCHANGED caps

\* Values an out-of-bounds lane may hold; a load inside the slice has none.
OobValues(cl) ==
    IF cl.i + Lanes(cl.fam) <= Len(cl.v1) THEN {0} ELSE -ElemSpan..ElemSpan

\* Variant of ChunkStep whose accumulator is one register file shared by
\* the callers: the step's result also lands in every other call that is
\* inside its chunk loop (C5 must tell it from the code).
ChunkStepShared(c) ==
    LET cl == call[c]
        W == Lanes(cl.fam)
        st2 == ChunkBody(cl.fam, cl.op, cl.v1, Second(cl.op, cl.v1, cl.v2),
                         cl.i, cl.st, 0)
    IN  /\ cl.pc = "chunk"
        /\ cl.i < ChunkLimit(Len(cl.v1), W)
        /\ call' = [d \in Callers |->
                      IF d = c
                      THEN [cl EXCEPT !.st = st2, !.starts = Append(@, cl.i),
                                      !.i = cl.i + W]
                      ELSE IF call[d].pc = "chunk"
                           THEN [call[d] EXCEPT !.st = st2]
                           ELSE call[d]]
        /\ UNCHANGED caps

\* One iteration of `for i in (0..m).step_by(W)`.
ChunkStep(c) ==
    LET cl == call[c]
        W == Lanes(cl.fam)
    IN  /\ cl.pc = "chunk"
        /\ cl.i < ChunkLimit(Len(cl.v1), W)
        /\ \E g \in OobValues(cl) :
             call' = [call EXCEPT ![c] =
                        [cl EXCEPT !.st = ChunkBody(cl.fam, cl.op, cl.v1,
                                                    Second(cl.op, cl.v1, cl.v2),
                                                    cl.i, cl.st, g),
                                   !.starts = Append(@, cl.i),
                                   !.i = cl.i + W]]
        /\ UNCHANGED caps

\* The chunk loop ends: horizontal reduction, then the tail loop from m.
ChunkExit(c) ==
    LET cl == call[c]
        W == Lanes(cl.fam)
    IN  /\ cl.pc = "chunk"
        /\ ~(cl.i < ChunkLimit(Len(cl.v1), W))
        /\ call' = [call EXCEPT ![c] =
                      [cl EXCEPT !.st = Reduce(cl.fam, cl.st),
                                 !.pc = "tail",
                                 !.i = TailStart(Len(cl.v1), W)]]
        /\ UNCHANGED caps

\* One iteration of `for i in m..n`.
TailStep(c) ==
    LET cl == call[c]
    IN  /\ cl.pc = "tail"
        /\ cl.i < Len(cl.v1)
        /\ call' = [call EXCEPT ![c] =
                      [cl EXCEPT !.st = TailBody(cl.op, cl.v1,
                                                 Second(cl.op, cl.v1, cl.v2),
                                                 cl.i, cl.st),
                                 !.tails = Append(@, cl.i),
                                 !.i = cl.i + 1]]
        /\ UNCHANGED caps

\* The tail loop ends: the kernel's last expression is returned.
KernelReturn(c) ==
    LET cl == call[c]
    IN  /\ cl.pc = "tail"
        /\ ~(cl.i < Len(cl.v1))
        /\ call' = [call EXCEPT ![c] =
                      [cl EXCEPT !.pc = "done",
                                 !.out = Wrap(cl.api, Final(cl.op, cl.v1, cl.st.res))]]
        /\ UNCHANGED caps

\* A scalar kernel: one iterator chain, summed and finished.
ScalarKernel(c) ==
    LET cl == call[c]
    IN  /\ cl.pc = "scalar"
        /\ call' = [call EXCEPT ![c] =
                      [cl EXCEPT !.pc = "done",
                                 !.st = [@ EXCEPT !.res = ScalarSum(cl.op, cl.v1, cl.v2)],
                                 !.out = Wrap(cl.api, RunKernel("scalar", cl.op,
                                                                cl.v1, cl.v2))]]
        /\ UNCHANGED caps

\* The caller takes the returned value; its call is over.
Return(c) ==
    /\ call[c].pc \in {"done", "nobuild"}
    /\ call' = [call EXCEPT ![c] = IdleCall]
    /\ UNCHANGED caps

\* One caller at a time: the metrics' methods and the kernel tests.
Next ==
    \E c \in {1} :
        \/ EuclidSimilarity(c, MainInputs)
        \/ DotSimilarity(c, MainInputs)
        \/ CosineSimilarity(c, MainInputs)
        \/ EuclidPreprocess(c, MainInputs)
        \/ DotPreprocess(c, MainInputs)
        \/ CosinePreprocess(c, MainInputs)
        \/ TestKernel(c, MainInputs)
        \/ ChunkStep(c)
        \/ ChunkExit(c)
        \/ TailStep(c)
        \/ KernelReturn(c)
        \/ ScalarKernel(c)
        \/ Return(c)

Spec == Init /\ [][Next]_vars

\* Several callers, their calls' steps interleaved in any order.
NextConc ==
    \E c \in Callers :
        \/ EuclidSimilarity(c, ConcInputs)
        \/ DotSimilarity(c, ConcInputs)
        \/ CosineSimilarity(c, ConcInputs)
        \/ EuclidPreprocess(c, ConcInputs)
        \/ DotPreprocess(c, ConcInputs)
        \/ CosinePreprocess(c, ConcInputs)
        \/ ChunkStep(c)
        \/ ChunkExit(c)
        \/ TailStep(c)
        \/ KernelReturn(c)
        \/ ScalarKernel(c)
        \/ Return(c)

SpecConc == Init /\ [][NextConc]_vars

\* ------------------------------------------------ results of whole calls
\* What Metric::similarity(v1, v2) of `metric` returns under cp.
SimilarityResult(metric, cp, v1, v2) ==
    LET k == SimilarityKernel(metric, cp) IN RunKernel(k.fam, k.op, v1, v2)

\* What Metric::preprocess(vector) of `metric` returns under cp.
PreprocessResult(metric, cp, vector) ==
    CASE metric = "Euclid" -> EuclidMetric_preprocess(vector)
      [] metric = "Dot" -> DotProductMetric_preprocess(vector)
      [] OTHER -> LET k == CosineMetric_preprocess(cp)
                  IN  Wrap("preprocess", RunKernel(k.fam, k.op, vector, vector))

\* A call that runs a kernel (every call but the two constant preprocess).
RunsKernel(cl) ==
    /\ cl.pc # "idle"
    /\ ~(cl.api = "preprocess" /\ cl.metric \in {"Euclid", "Dot"})

\* A metric method that dispatches on the capability set.
Dispatches(cl) == RunsKernel(cl) /\ cl.api \in {"similarity", "preprocess"}

\* ------------------------------------------------------------------ claims

\* The family the stated priority order selects: widest first.
MostCapable(cp) ==
    IF "avx512f" \in cp THEN "avx512f"
    ELSE IF "avx2" \in cp THEN "avx2"
    ELSE IF "sse" \in cp THEN "sse"
    ELSE IF "neon" \in cp THEN "neon"
    ELSE "scalar"

\* C1: for every capability set, each dispatching method (the three
\* similarity methods and CosineMetric.preprocess) runs the kernel of the
\* most capable available family, AVX-512F > AVX2 > SSE / NEON > scalar,
\* and the scalar kernel only when no accelerated family is available.
C1_MostCapableFamily ==
    \A c \in Callers :
        Dispatches(call[c]) => call[c].fam = MostCapable(caps)

\* C1, as far as the code goes: among AVX2, SSE and scalar the order holds.
C1_Avx2SseScalarOrder ==
    \A c \in Callers :
        Dispatches(call[c]) =>
            call[c].fam = MostCapable(caps \ {"avx512f", "neon"})

\* C2: every x86 kernel (SSE, AVX2, AVX-512F) called directly on
\* integer-valued vectors of equal length returns, for each of the three
\* operations, exactly what the scalar kernel returns, and its sum equals
\* the scalar sum.
C2_X86EqualsScalar ==
    \A c \in Callers :
        LET cl == call[c]
        IN  (cl.api = "kernel" /\ cl.fam \in X86Families
                /\ cl.pc \in {"done", "nobuild"}) =>
                /\ cl.pc = "done"
                /\ cl.st.res = ScalarSum(cl.op, cl.v1, cl.v2)
                /\ cl.out = RunKernel("scalar", cl.op, cl.v1, cl.v2)

\* C2, for the x86 kernels that have a compiled body.
C2_CompiledX86EqualScalar ==
    \A c \in Callers :
        LET cl == call[c]
        IN  (cl.api = "kernel" /\ cl.fam \in X86Families /\ cl.pc = "done") =>
                /\ cl.st.res = ScalarSum(cl.op, cl.v1, cl.v2)
                /\ cl.out = RunKernel("scalar", cl.op, cl.v1, cl.v2)

\* C3: for every capability set and argument pair, CosineMetric.similarity
\* runs the kernel DotProductMetric.similarity runs and returns the score
\* that kernel returns on the arguments as given.
C3_CosineIsDot ==
    \A c \in Callers :
        LET cl == call[c]
            k == DotProductMetric_similarity(caps)
        IN  (cl.api = "similarity" /\ cl.metric = "Cosine" /\ cl.pc # "idle") =>
                /\ cl.fam = k.fam
                /\ cl.op = k.op
                /\ cl.pc = "done" =>
                       cl.out = SimilarityResult("Dot", caps, cl.v1, cl.v2)

C3_Witness ==
    \E c \in Callers :
        /\ call[c].api = "similarity" /\ call[c].metric = "Cosine"
        /\ call[c].pc = "done" /\ call[c].fam = "avx2"
        /\ Len(call[c].v1) > 8
        /\ call[c].out.score.val # 0

\* What a finished preprocess has returned (the state part of C4).
C4_Returned ==
    \A c \in Callers :
        LET cl == call[c]
        IN  (cl.api = "preprocess" /\ cl.pc = "done") =>
                /\ cl.metric \in {"Euclid", "Dot"} => cl.out = None
                /\ cl.metric = "Cosine" =>
                       /\ cl.out.tag = "some"
                       /\ Len(cl.out.vec) = Len(cl.v1)

\* No step of a preprocess call writes its input (the step part of C4).
C4_InputKept ==
    \A c \in Callers :
        (call[c].api = "preprocess" /\ call[c].pc # "idle" /\ call'[c].pc # "idle")
            => call'[c].v1 = call[c].v1

\* C4: preprocess returns nothing for the Euclid and Dot metrics and, for
\* the Cosine metric, a present vector as long as its input; and no step
\* of a preprocess call changes the caller's input vector.
C4_Preprocess == [](C4_Returned) /\ [][C4_InputKept]_vars

C4_Witness ==
    \E c \in Callers :
        /\ call[c].api = "preprocess" /\ call[c].metric = "Cosine"
        /\ call[c].pc = "done" /\ call[c].fam = "sse"
        /\ Len(call[c].v1) = 6
        /\ call[c].out.tag = "some" /\ Len(call[c].out.vec) = 6
        /\ call[c].out.vec[1].cls = "fin" /\ call[c].out.vec[1].val # 0

\* Two calls of the same method in progress run the same kernel.
C5_SameKernel ==
    \A c, d \in Callers :
        (Dispatches(call[c]) /\ Dispatches(call[d])
            /\ call[c].api = call[d].api /\ call[c].metric = call[d].metric)
            => (call[c].fam = call[d].fam /\ call[c].op = call[d].op)

\* A returned value is the one the call returns when it runs alone.
C5_ResultAlone ==
    \A c \in Callers :
        LET cl == call[c]
        IN  cl.pc = "done" =>
                cl.out = CASE cl.api = "similarity" ->
                                  SimilarityResult(cl.metric, caps, cl.v1, cl.v2)
                           [] cl.api = "preprocess" ->
                                  PreprocessResult(cl.metric, caps, cl.v1)
                           [] OTHER -> RunKernel(cl.fam, cl.op, cl.v1, cl.v2)

\* C5: under any interleaving of the callers' steps no step changes the
\* capability set, two calls of the same method in progress have selected
\* the same kernel, and every call returns what the same call returns
\* when it runs alone: a function of its own arguments and the
\* capability set.
C5_Concurrent ==
    [](C5_SameKernel /\ C5_ResultAlone) /\ [][caps' = caps]_vars

\* Two calls of one method on different arguments, one returned and one
\* inside its tail loop.
C5_Witness ==
    \E c, d \in Callers :
        /\ c # d
        /\ call[c].api = "similarity" /\ call[d].api = "similarity"
        /\ call[c].metric = "Euclid" /\ call[d].metric = "Euclid"
        /\ call[c].fam = "sse" /\ call[d].fam = "sse"
        /\ call[c].v1 # call[d].v1
        /\ call[c].pc = "done" /\ call[c].out.score.val < 0
        /\ call[d].pc = "tail" /\ call[d].starts = <<0>>

RECURSIVE SumSqDiffFrom(_, _, _)
SumSqDiffFrom(a, b, k) ==
    IF k > Len(a) THEN 0
    ELSE (a[k] - b[k]) * (a[k] - b[k]) + SumSqDiffFrom(a, b, k + 1)

\* The sum of squared differences of two vectors.
SumSqDiff(a, b) == SumSqDiffFrom(a, b, 1)

\* C6: every score EuclidMetric.similarity returns is <= 0, and the score
\* orders candidates as their squared distance does: the closer of v2 and
\* v3 to v1 gets the score that is at least the other's.
C6_EuclidOrder ==
    \A c \in Callers :
        LET cl == call[c]
        IN  (cl.api = "similarity" /\ cl.metric = "Euclid" /\ cl.pc = "done") =>
                /\ cl.out.tag = "score"
                /\ FLe(cl.out.score, Fin(0))
                /\ \A v3 \in Vecs(Len(cl.v1)) :
                     LET other == SimilarityResult("Euclid", caps, cl.v1, v3).score
                     IN  /\ SumSqDiff(cl.v1, cl.v2) <= SumSqDiff(cl.v1, v3)
                             => FLe(other, cl.out.score)
                         /\ SumSqDiff(cl.v1, v3) <= SumSqDiff(cl.v1, cl.v2)
                             => FLe(cl.out.score, other)

C6_Witness ==
    \E c \in Callers :
        LET cl == call[c]
        IN  /\ cl.api = "similarity" /\ cl.metric = "Euclid" /\ cl.pc = "done"
            /\ cl.fam = "avx2" /\ Len(cl.v1) = 11
            /\ cl.out.score.val < 0
            /\ \E v3 \in Vecs(Len(cl.v1)) :
                 /\ SumSqDiff(cl.v1, cl.v2) < SumSqDiff(cl.v1, v3)
                 /\ SimilarityResult("Euclid", caps, cl.v1, v3).score.val
                        < cl.out.score.val

\* C7: every Euclid kernel (scalar, SSE, AVX2, AVX-512F, NEON) returns a
\* score, and the same score for (v1, v2) as for (v2, v1).
C7_EuclidSymmetry ==
    \A c \in Callers :
        LET cl == call[c]
        IN  (cl.op = "euclid" /\ cl.pc \in {"done", "nobuild"}) =>
                /\ cl.out.tag = "score"
                /\ cl.out = RunKernel(cl.fam, "euclid", cl.v2, cl.v1)

\* C7, for the Euclid kernels that have a compiled body.
C7_CompiledEuclidSymmetry ==
    \A c \in Callers :
        LET cl == call[c]
        IN  (cl.op = "euclid" /\ cl.pc = "done") =>
                /\ cl.out.tag = "score"
                /\ cl.out = RunKernel(cl.fam, "euclid", cl.v2, cl.v1)

Scaled(v, s) == [k \in 1..Len(v) |-> s * v[k]]

\* C8: for every dot kernel, every scalar a and all equal-length integer
\* vectors, the dot similarity of (a * v1, v2) is a times that of
\* (v1, v2), tails included.
C8_DotBilinear ==
    \A c \in Callers :
        LET cl == call[c]
        IN  (cl.op = "dot" /\ cl.pc = "done") =>
                /\ cl.out.tag = "score" /\ IsFinite(cl.out.score)
                /\ \A s \in -ScalarSpan..ScalarSpan :
                     RunKernel(cl.fam, "dot", Scaled(cl.v1, s), cl.v2)
                         = Score(Fin(s * cl.out.score.val))

C8_Witness ==
    \E c \in Callers :
        LET cl == call[c]
        IN  /\ cl.op = "dot" /\ cl.pc = "done" /\ cl.fam = "avx512f"
            /\ Len(cl.v1) = 17 /\ cl.tails = <<16>>
            /\ cl.v1[17] * cl.v2[17] # 0
            /\ cl.out.score.val # 0

\* C9: CosineMetric.preprocess of an all-zero vector of length >= 1
\* returns, under every capability set, a present vector of that length
\* whose elements are all non-finite; so does each cosine kernel called
\* directly.
C9_ZeroVector ==
    \A c \in Callers :
        LET cl == call[c]
        IN  (cl.op = "cosine" /\ RunsKernel(cl) /\ cl.pc \in {"done", "nobuild"}
                /\ Len(cl.v1) >= 1 /\ cl.v1 = ZeroVec(Len(cl.v1))) =>
                /\ cl.pc = "done"
                /\ cl.api = "preprocess" => cl.out.tag = "some"
                /\ cl.out.tag \in {"some", "vec"}
                /\ Len(cl.out.vec) = Len(cl.v1)
                /\ \A k \in 1..Len(cl.v1) : ~IsFinite(cl.out.vec[k])

C9_Witness ==
    \E c \in Callers :
        LET cl == call[c]
        IN  /\ cl.api = "preprocess" /\ cl.metric = "Cosine" /\ cl.pc = "done"
            /\ cl.fam = "avx2" /\ cl.v1 = ZeroVec(9)
            /\ cl.out.tag = "some" /\ Len(cl.out.vec) = 9
            /\ cl.out.vec[9] = NaN

\* How many of the loads and tail visits recorded in cl cover index j.
Contributions(cl, j) ==
    Cardinality({k \in DOMAIN cl.starts :
                    cl.starts[k] <= j /\ j < cl.starts[k] + Lanes(cl.fam)})
        + Cardinality({k \in DOMAIN cl.tails : cl.tails[k] = j})

\* C10: in every accelerated kernel of lane width W on vectors of length
\* n, with m = n - (n mod W): every register load starts at a multiple of
\* W with start + W <= m, the tail loop visits m .. n-1 in order, no index
\* >= n is ever read, and when the kernel returns every index 0 .. n-1
\* has contributed exactly once.
C10_ChunkAndTail ==
    \A c \in Callers :
        LET cl == call[c]
            W == Lanes(cl.fam)
            n == Len(cl.v1)
            m == n - (n % W)
        IN  (cl.fam \in SimdFamilies /\ cl.pc \in {"chunk", "tail", "done"}) =>
                /\ \A k \in DOMAIN cl.starts :
                     /\ cl.starts[k] % W = 0
                     /\ cl.starts[k] + W <= m
                     /\ cl.starts[k] + W <= n
                /\ \A k \in DOMAIN cl.tails :
                     /\ cl.tails[k] = m + k - 1
                     /\ cl.tails[k] < n
                /\ cl.pc = "chunk" => cl.tails = <<>>
                /\ cl.pc = "done" =>
                     /\ Len(cl.tails) = n - m
                     /\ \A j \in 0..(n - 1) : Contributions(cl, j) = 1

C10_Witness ==
    \E c \in Callers :
        LET cl == call[c]
        IN  /\ cl.pc = "done" /\ cl.fam = "sse" /\ cl.op = "euclid"
            /\ Len(cl.v1) = 11
            /\ cl.starts = <<0, 4>> /\ cl.tails = <<8, 9, 10>>

====
